---------------------------- MODULE Spec2Model ----------------------------
(***************************************************************************)
(* Model of the geo-globe guessing game (src/src/components/GeoGlobeGame.js).*)
(*                                                                         *)
(* JavaScript values are modelled as tagged records so that the duck-typed *)
(* geometry handling of calculateCentroid (truthiness, typeof, indexing of *)
(* undefined, NaN arithmetic) is computed the way the engine computes it.  *)
(* Numbers are exact rationals n/d; d = 0 encodes the IEEE specials        *)
(* (0/0 = NaN, 1/0 = Infinity).  Trigonometry is fixed-point (scale 1000)  *)
(* on a half-degree table, so coordinates of the sample data are whole     *)
(* degrees, at least a few degrees apart.                                  *)
(***************************************************************************)
EXTENDS Integers, Sequences, FiniteSets, TLC

----------------------------------------------------------------------------
(* JavaScript values *)

JsVal(kind, num, den, arr) == [k |-> kind, n |-> num, d |-> den, a |-> arr]

Num(i) == JsVal("num", i, 1, <<>>)

NaN == JsVal("num", 0, 0, <<>>)

Infinity == JsVal("num", 1, 0, <<>>)

Undefined == JsVal("undef", 0, 0, <<>>)

Null == JsVal("null", 0, 0, <<>>)

\* a one-character, non-numeric string such as "x"
Str == JsVal("str", 0, 0, <<>>)

Arr(s) == JsVal("arr", 0, 0, s)

\* the outcome of an expression that raised a TypeError
Throw == JsVal("throw", 0, 0, <<>>)

IsNum(v) == v.k = "num"

IsNaN(v) == v.k = "num" /\ v.d = 0 /\ v.n = 0

IsFinite(v) == v.k = "num" /\ v.d # 0

Abs(i) == IF i < 0 THEN -i ELSE i

RECURSIVE Gcd(_, _)
Gcd(x, y) == IF y = 0 THEN x ELSE Gcd(y, x % y)

\* the rational num/den in lowest terms; den > 0
Rat(num, den) ==
    LET g == Gcd(Abs(num), den)
    IN  JsVal("num", num \div g, den \div g, <<>>)

\* x[i]: a property read on undefined or null throws; an index that is not
\* there reads as undefined
Index(x, i) ==
    CASE x.k = "throw" -> Throw
      [] x.k \in {"undef", "null"} -> Throw
      [] x.k = "arr" -> IF i + 1 <= Len(x.a) THEN x.a[i + 1] ELSE Undefined
      [] x.k = "str" -> IF i = 0 THEN Str ELSE Undefined
      [] OTHER -> Undefined

\* x.length
Length(x) ==
    CASE x.k = "throw" -> Throw
      [] x.k \in {"undef", "null"} -> Throw
      [] x.k = "arr" -> Num(Len(x.a))
      [] x.k = "str" -> Num(1)
      [] OTHER -> Undefined

\* ToBoolean
Truthy(v) ==
    CASE v.k = "num" -> v.n # 0
      [] v.k \in {"undef", "null", "throw"} -> FALSE
      [] OTHER -> TRUE

TypeofNumber(v) == v.k = "num"

\* ToNumber of a value that is no string or array
ToNumber(v) ==
    CASE v.k = "num" -> v
      [] v.k = "null" -> Num(0)
      [] OTHER -> NaN

\* x + y, as the reducers use it (x is the running sum)
Add(x, y) ==
    IF x.k = "throw" \/ y.k = "throw" THEN Throw
    ELSE IF x.k \in {"str", "arr"} \/ y.k \in {"str", "arr"} THEN Str
    ELSE LET p == ToNumber(x)
             q == ToNumber(y)
         IN  IF ~IsFinite(p) \/ ~IsFinite(q)
             THEN (IF IsNaN(p) \/ IsNaN(q) \/ (p.d = 0 /\ q.d = 0 /\ p.n # q.n) THEN NaN
                   ELSE IF p.d = 0 THEN p ELSE q)
             ELSE Rat(p.n * q.d + q.n * p.d, p.d * q.d)

\* x / y for a sum x and a length y
Div(x, y) ==
    CASE x.k = "throw" \/ y.k = "throw" -> Throw
      [] x.k # "num" \/ y.k # "num" -> NaN
      [] ~IsFinite(x) \/ ~IsFinite(y) -> IF IsFinite(y) /\ y.n # 0 THEN x ELSE NaN
      [] y.n = 0 ->
            IF x.n = 0 THEN NaN
            ELSE JsVal("num", IF x.n > 0 THEN 1 ELSE -1, 0, <<>>)
      [] OTHER ->
            IF y.n > 0 THEN Rat(x.n * y.d, x.d * y.n)
            ELSE Rat(-(x.n * y.d), x.d * (-(y.n)))

\* a > b on lengths; a comparison with undefined is false
Greater(a, b) == IsFinite(a) /\ IsFinite(b) /\ a.n * b.d > b.n * a.d

----------------------------------------------------------------------------
(* calculateCentroid *)

\* points.reduce((sum, point) => sum + point[i], 0)
RECURSIVE SumCoord(_, _, _)
SumCoord(points, i, upto) ==
    IF upto = 0 THEN Num(0)
    ELSE Add(SumCoord(points, i, upto - 1), Index(points[upto], i))

\* ring.reduce(...) for both coordinates, divided by ring.length
RingAverage(ring) ==
    IF ring.k # "arr" THEN <<Throw, Throw>>
    ELSE <<Div(SumCoord(ring.a, 0, Len(ring.a)), Length(ring)),
           Div(SumCoord(ring.a, 1, Len(ring.a)), Length(ring))>>

\* variant: the first member's ring, whatever its length
LargestPolygonFirst(polygons, upto) == polygons[1]

\* polygons.reduce((largest, current) =>
\*     current.length > largest.length ? current : largest, polygons[0])
RECURSIVE LargestPolygon(_, _)
LargestPolygon(polygons, upto) ==
    IF upto = 0 THEN polygons[1]
    ELSE LET largest == LargestPolygon(polygons, upto - 1)
             current == polygons[upto]
             cl == Length(current)
             ll == Length(largest)
         IN  IF largest.k = "throw" \/ cl.k = "throw" \/ ll.k = "throw" THEN Throw
             ELSE IF Greater(cl, ll) THEN current ELSE largest

Origin == <<Num(0), Num(0)>>

Caught(pair) == IF pair[1].k = "throw" \/ pair[2].k = "throw" THEN Origin ELSE pair

\* variant: the first ring is averaged with neither the guard nor the catch
calculateCentroidUnguarded(coordinates) == RingAverage(Index(coordinates, 0))

calculateCentroid(coordinates) ==
    IF ~Truthy(coordinates) \/ Length(coordinates) = Num(0) THEN Origin
    ELSE
      LET first == Index(Index(Index(coordinates, 0), 0), 0)
      IN  IF first.k = "throw" THEN Origin
          ELSE IF Truthy(first) /\ TypeofNumber(first)
          THEN Caught(RingAverage(Index(coordinates, 0)))
          ELSE IF coordinates.k # "arr" THEN Origin
          ELSE
            LET polygons == [p \in 1..Len(coordinates.a) |->
                                Index(coordinates.a[p], 0)]
            IN  IF \E p \in 1..Len(polygons) : polygons[p].k = "throw"
                THEN Origin
                ELSE Caught(RingAverage(LargestPolygon(polygons, Len(polygons))))

----------------------------------------------------------------------------
(* calculateDistance: haversine in fixed-point arithmetic *)

EARTH_RADIUS_KM == 6371

\* fixed-point scale of the trigonometric values
Scale == 1000

\* 1000 * sin(h/2 degrees) for h = 0..180, i.e. Math.sin(toRad(.)) on 0..90 degrees
SinTab == <<
    0, 9, 17, 26, 35, 44, 52, 61, 70, 78, 87, 96, 105, 113, 122, 131,
    139, 148, 156, 165, 174, 182, 191, 199, 208, 216, 225, 233, 242, 250, 259, 267,
    276, 284, 292, 301, 309, 317, 326, 334, 342, 350, 358, 367, 375, 383, 391, 399,
    407, 415, 423, 431, 438, 446, 454, 462, 469, 477, 485, 492, 500, 508, 515, 522,
    530, 537, 545, 552, 559, 566, 574, 581, 588, 595, 602, 609, 616, 623, 629, 636,
    643, 649, 656, 663, 669, 676, 682, 688, 695, 701, 707, 713, 719, 725, 731, 737,
    743, 749, 755, 760, 766, 772, 777, 783, 788, 793, 799, 804, 809, 814, 819, 824,
    829, 834, 839, 843, 848, 853, 857, 862, 866, 870, 875, 879, 883, 887, 891, 895,
    899, 903, 906, 910, 914, 917, 921, 924, 927, 930, 934, 937, 940, 943, 946, 948,
    951, 954, 956, 959, 961, 964, 966, 968, 970, 972, 974, 976, 978, 980, 982, 983,
    985, 986, 988, 989, 990, 991, 993, 994, 995, 995, 996, 997, 998, 998, 999, 999,
    999, 1000, 1000, 1000, 1000 >>

\* Math.sin of an angle of h half-degrees (any integer h), scaled
SinH(h) ==
    LET m == h % 720
    IN  CASE m <= 180 -> SinTab[m + 1]
          [] m <= 360 -> SinTab[360 - m + 1]
          [] m <= 540 -> -SinTab[m - 360 + 1]
          [] OTHER -> -SinTab[720 - m + 1]

\* Math.cos of an angle of h half-degrees, scaled
CosH(h) == SinH(h + 180)

\* Math.sqrt of a value scaled by Scale^2, scaled by Scale
ISqrt(x) == CHOOSE r \in 0..Scale : r * r <= x /\ (r + 1) * (r + 1) > x

\* Math.atan2(y, x) for y, x >= 0, in half-degrees (0..180):
\* the largest t with tan t <= y/x (tan grows with t)
Atan2H(y, x) ==
    CHOOSE t \in 0..180 :
        /\ SinH(t) * x <= CosH(t) * y
        /\ (t = 180 \/ SinH(t + 1) * x > CosH(t + 1) * y)

\* whole degrees of a finite number
Deg(v) == v.n \div v.d

\* variant: the arguments of Math.atan2 change places
calculateDistanceSwapped(lat1, lon1, lat2, lon2) ==
    IF \E v \in {lat1, lon1, lat2, lon2} : ~IsFinite(v) THEN NaN
    ELSE
      LET dLat == Deg(lat2) - Deg(lat1)
          dLon == Deg(lon2) - Deg(lon1)
          a == SinH(dLat) * SinH(dLat)
               + (((CosH(2 * Deg(lat1)) * CosH(2 * Deg(lat2))) \div Scale)
                   * (SinH(dLon) * SinH(dLon))) \div Scale
      IN  IF a > Scale * Scale THEN NaN
          ELSE
            LET c == Atan2H(ISqrt(Scale * Scale - a), ISqrt(a))
            IN  Num((EARTH_RADIUS_KM * c * 355) \div (113 * 180))

\* variant: Math.cos(toRad(lat1)) is taken twice
calculateDistanceLat1(lat1, lon1, lat2, lon2) ==
    IF \E v \in {lat1, lon1, lat2, lon2} : ~IsFinite(v) THEN NaN
    ELSE
      LET dLat == Deg(lat2) - Deg(lat1)
          dLon == Deg(lon2) - Deg(lon1)
          a == SinH(dLat) * SinH(dLat)
               + (((CosH(2 * Deg(lat1)) * CosH(2 * Deg(lat1))) \div Scale)
                   * (SinH(dLon) * SinH(dLon))) \div Scale
      IN  IF a > Scale * Scale THEN NaN
          ELSE
            LET c == Atan2H(ISqrt(a), ISqrt(Scale * Scale - a))
            IN  Num((EARTH_RADIUS_KM * c * 355) \div (113 * 180))

calculateDistance(lat1, lon1, lat2, lon2) ==
    IF \E v \in {lat1, lon1, lat2, lon2} : ~IsFinite(v) THEN NaN
    ELSE
      LET dLat == Deg(lat2) - Deg(lat1)
          dLon == Deg(lon2) - Deg(lon1)
          a == SinH(dLat) * SinH(dLat)
               + (((CosH(2 * Deg(lat1)) * CosH(2 * Deg(lat2))) \div Scale)
                   * (SinH(dLon) * SinH(dLon))) \div Scale
      IN  IF a > Scale * Scale THEN NaN
          ELSE
            \* c = 2 * atan2(sqrt(a), sqrt(1 - a)), in degrees
            LET c == Atan2H(ISqrt(a), ISqrt(Scale * Scale - a))
            IN  Num((EARTH_RADIUS_KM * c * 355) \div (113 * 180))

----------------------------------------------------------------------------
(* getColorByDistance *)

Correct == "rgba(52, 211, 153, 0.8)"

VeryClose == "rgba(74, 98, 138, 0.8)"

Close == "rgba(122, 178, 211, 0.8)"

Far == "rgba(185, 229, 232, 0.8)"

VeryFar == "rgba(223, 242, 235, 0.8)"

\* distance === 0
StrictZero(v) == IsFinite(v) /\ v.n = 0

\* distance < limit (null converts to 0, undefined and NaN compare false)
Less(v, limit) ==
    CASE v.k = "null" -> 0 < limit
      [] v.k # "num" -> FALSE
      [] v.d = 0 -> v.n < 0
      [] OTHER -> v.n < limit * v.d

\* distance <= limit
LessOrEqual(v, limit) == Less(v, limit) \/ (IsFinite(v) /\ v.n = limit * v.d)

\* variant: the limits belong to the nearer tier
getColorInclusive(distance) ==
    IF StrictZero(distance) THEN Correct
    ELSE IF LessOrEqual(distance, 1000) THEN VeryClose
    ELSE IF LessOrEqual(distance, 2500) THEN Close
    ELSE IF LessOrEqual(distance, 5000) THEN Far
    ELSE VeryFar

getColorByDistance(distance) ==
    IF StrictZero(distance) THEN Correct
    ELSE IF Less(distance, 1000) THEN VeryClose
    ELSE IF Less(distance, 2500) THEN Close
    ELSE IF Less(distance, 5000) THEN Far
    ELSE VeryFar

----------------------------------------------------------------------------
(* Text: a string is a sequence of one-character strings *)

Upper == <<"A", "B", "C", "D", "E", "F", "G", "H", "I", "J", "K", "L">>

Lower == <<"a", "b", "c", "d", "e", "f", "g", "h", "i", "j", "k", "l">>

\* String.prototype.toLowerCase
toLowerCase(text) ==
    [i \in 1..Len(text) |->
        IF \E u \in 1..Len(Upper) : Upper[u] = text[i]
        THEN Lower[CHOOSE u \in 1..Len(Upper) : Upper[u] = text[i]]
        ELSE text[i]]

\* String.prototype.trim
RECURSIVE trim(_)
trim(text) ==
    IF text = <<>> THEN text
    ELSE IF Head(text) = " " THEN trim(Tail(text))
    ELSE IF text[Len(text)] = " " THEN trim(SubSeq(text, 1, Len(text) - 1))
    ELSE text

----------------------------------------------------------------------------
(* Calendar dates and format(new Date(), 'yyyy-MM-dd') *)

\* number of calendar days the clock of the model runs through
MaxDay == 2

FirstDate == [year |-> 2024, month |-> 12, day |-> 31]

IsLeap(y) == (y % 4 = 0 /\ y % 100 # 0) \/ y % 400 = 0

DaysInMonth(y, m) ==
    IF m = 2 THEN (IF IsLeap(y) THEN 29 ELSE 28)
    ELSE IF m \in {4, 6, 9, 11} THEN 30 ELSE 31

NextDate(dt) ==
    IF dt.day < DaysInMonth(dt.year, dt.month)
    THEN [dt EXCEPT !.day = @ + 1]
    ELSE IF dt.month < 12
    THEN [dt EXCEPT !.month = @ + 1, !.day = 1]
    ELSE [year |-> dt.year + 1, month |-> 1, day |-> 1]

\* new Date() on the k-th day of the run (k >= 0; day 0 is yesterday of day 1)
RECURSIVE DateOf(_)
DateOf(k) ==
    IF k = 0 THEN [year |-> 2024, month |-> 12, day |-> 30]
    ELSE IF k = 1 THEN FirstDate
    ELSE NextDate(DateOf(k - 1))

Digits == <<"0", "1", "2", "3", "4", "5", "6", "7", "8", "9">>

\* the decimal digits of v, zero-padded to width characters
RECURSIVE Pad(_, _)
Pad(v, width) ==
    IF width = 0 THEN <<>>
    ELSE Append(Pad(v \div 10, width - 1), Digits[(v % 10) + 1])

\* format(date, 'yyyy-MM-dd')
format(dt) == Pad(dt.year, 4) \o <<"-">> \o Pad(dt.month, 2) \o <<"-">> \o Pad(dt.day, 2)

\* today.split('-')
RECURSIVE split(_)
split(text) ==
    IF \A i \in 1..Len(text) : text[i] # "-" THEN <<text>>
    ELSE LET cut == CHOOSE i \in 1..Len(text) :
                        text[i] = "-" /\ \A j \in 1..(i - 1) : text[j] # "-"
         IN  <<SubSeq(text, 1, cut - 1)>> \o split(SubSeq(text, cut + 1, Len(text)))

\* parseInt on a string of decimal digits
RECURSIVE parseInt(_)
parseInt(text) ==
    IF text = <<>> THEN 0
    ELSE 10 * parseInt(SubSeq(text, 1, Len(text) - 1))
         + ((CHOOSE d \in 1..10 : Digits[d] = text[Len(text)]) - 1)

\* format(new Date(), 'yyyy-MM-dd') on each day of the run
Today == [k \in 0..(MaxDay + 1) |-> format(DateOf(k))]

----------------------------------------------------------------------------
(* countryData: a sample of the dataset loaded from countries-50m.json *)

Pt(lon, lat) == Arr(<<Num(lon), Num(lat)>>)

\* a square ring with the given lower-left corner and side
Square(lon, lat, side) ==
    Arr(<<Pt(lon, lat), Pt(lon, lat + side), Pt(lon + side, lat + side), Pt(lon + side, lat)>>)

Polygon(rings) == Arr(rings)

MultiPolygon(polygons) == Arr(polygons)

countryData == <<
    [name |-> <<"A">>, coordinates |-> Polygon(<<Square(10, 10, 2)>>)],
    [name |-> <<"B">>, coordinates |-> Polygon(<<Square(20, 10, 4)>>)],
    [name |-> <<"C">>, coordinates |-> MultiPolygon(<<
        Polygon(<<Arr(<<Pt(60, 0), Pt(62, 0), Pt(61, 3)>>)>>),
        Polygon(<<Arr(<<Pt(30, 40), Pt(34, 40), Pt(36, 44), Pt(32, 48), Pt(28, 43)>>)>>)>>)],
    \* a ring that starts on the prime meridian
    [name |-> <<"D">>, coordinates |-> Polygon(<<Square(0, 50, 4)>>)],
    [name |-> <<"E">>, coordinates |-> Polygon(<<
        Arr(<<Pt(-60, -10), Pt(-56, -10), Pt(-58, -16)>>)>>)],
    [name |-> <<"F">>, coordinates |-> Polygon(<<Square(100, 20, 4)>>)],
    \* a polygon with a hole
    [name |-> <<"G">>, coordinates |-> Polygon(<<Square(40, 0, 4),
        Arr(<<Pt(41, 1), Pt(41, 2), Pt(42, 3), Pt(43, 2), Pt(43, 1)>>)>>)],
    [name |-> <<"H">>, coordinates |-> MultiPolygon(<<
        Polygon(<<Square(-100, 40, 6)>>),
        Polygon(<<Arr(<<Pt(-150, 60), Pt(-148, 60), Pt(-149, 63)>>)>>)>>)],
    [name |-> <<"I">>, coordinates |-> Polygon(<<Square(140, -30, 4)>>)],
    [name |-> <<"J">>, coordinates |-> Polygon(<<Square(15, 45, 2)>>)],
    [name |-> <<"K">>, coordinates |-> Polygon(<<Square(12, 20, 2)>>)],
    [name |-> <<"L">>, coordinates |-> Polygon(<<Square(14, 14, 2)>>)] >>

NumCountries == Len(countryData)

\* country.name.toLowerCase().trim() of every country
NameKey == [c \in 1..NumCountries |-> trim(toLowerCase(countryData[c].name))]

\* a variant of the lookup that falls back to the first country
FindCountryOrFirst(text) ==
    LET key == trim(toLowerCase(text))
        hits == {c \in 1..NumCountries : NameKey[c] = key}
    IN  IF hits = {} THEN 1 ELSE CHOOSE c \in hits : \A o \in hits : c <= o

\* countryData.find(country => country.name.toLowerCase().trim() === text.toLowerCase().trim()):
\* the index of the first match, 0 when there is none
FindCountry(text) ==
    LET key == trim(toLowerCase(text))
        hits == {c \in 1..NumCountries : NameKey[c] = key}
    IN  IF hits = {} THEN 0 ELSE CHOOSE c \in hits : \A o \in hits : c <= o

----------------------------------------------------------------------------
(* Daily target *)

\* variant: the month does not enter the seed
countryIndexNoMonth(today, length) ==
    LET dateParts == split(today)
        year == parseInt(dateParts[1])
        day == parseInt(dateParts[3])
        seed == (year * 373) + (day * 7)
    IN  seed % length

\* the seed and index the daily-target effect derives from format(new Date()),
\* for a dataset of the given length
countryIndex(today, length) ==
    LET dateParts == split(today)
        year == parseInt(dateParts[1])
        month == parseInt(dateParts[2])
        day == parseInt(dateParts[3])
        seed == (year * 373) + (month * 37) + (day * 7)
    IN  seed % length

DailyCountryIndex(today) == countryIndex(today, NumCountries)

\* countryData[countryIndex], as a 1-based position in countryData
DailyTarget(today) == DailyCountryIndex(today) + 1

----------------------------------------------------------------------------
(* Component state, localStorage and the clock *)

MAX_GUESSES == 10

VARIABLES
    now,             \* the calendar day new Date() falls on, 1..MaxDay
    guesses,         \* useState([]): the guess history
    targetCountry,   \* useState(null): 0, or a position in countryData
    gameOver,        \* useState(false)
    won,             \* useState(false)
    isLoading,       \* useState(true)
    isPracticeMode,  \* useState(false)
    settings,        \* useState of autoRotate, showDistanceGuide, showPreviousGuesses,
                     \* globeStyle, selectedRegion, distanceUnit
    stats,           \* useState({gamesPlayed: 0, ...})
    storage,         \* localStorage[GAME_STATE_KEY]
    statsStore,      \* localStorage[STATS_KEY]
    probe            \* the engine functions applied to sampled inputs

gameVars == <<now, guesses, targetCountry, gameOver, won, isLoading, isPracticeMode,
              settings, stats, storage, statsStore>>

\* the initial values of the settings' useState
InitialSettings ==
    [autoRotate |-> TRUE, showDistanceGuide |-> TRUE, showPreviousGuesses |-> TRUE,
     globeStyle |-> "default", selectedRegion |-> "all", distanceUnit |-> "km"]

vars == <<gameVars, probe>>

InitialStats ==
    [gamesPlayed |-> 0, gamesWon |-> 0, currentStreak |-> 0, maxStreak |-> 0,
     lastPlayedDate |-> <<>>,
     guessDistribution |-> [g \in 1..MAX_GUESSES |-> Num(0)]]

\* localStorage.getItem(...) === null
NoItem == [present |-> FALSE, date |-> <<>>, guesses |-> <<>>, gameOver |-> FALSE, won |-> FALSE]

NoStats == [present |-> FALSE, value |-> InitialStats]

\* probe: one engine function, the input sampled for it, and its result once applied
Probe(fn, st, input, output) == [fn |-> fn, done |-> st, input |-> input, output |-> output]

ProbeIdle == Probe("none", FALSE, <<>>, <<>>)

InitGame ==
    /\ now = 1
    /\ guesses = <<>>
    /\ targetCountry = 0
    /\ gameOver = FALSE
    /\ won = FALSE
    /\ isLoading = TRUE
    /\ isPracticeMode = FALSE
    /\ settings = InitialSettings
    /\ stats = InitialStats
    /\ storage = NoItem
    /\ statsStore = NoStats

Init == InitGame /\ probe = ProbeIdle

----------------------------------------------------------------------------
(* JSON.stringify / JSON.parse of the saved game *)

\* a number that is not finite is written as null
JsonNumber(v) == IF v.k = "num" /\ v.d = 0 THEN Null ELSE v

JsonGuess(g) == [g EXCEPT !.distance = JsonNumber(@)]

\* the save effect's localStorage.setItem(GAME_STATE_KEY, JSON.stringify({...}))
SavedGame(today, gs, over, w) ==
    [present |-> TRUE, date |-> today,
     guesses |-> [i \in 1..Len(gs) |-> JsonGuess(gs[i])],
     gameOver |-> over, won |-> w]

\* the save effect, run after a render in which isLoading has the given value
SaveEffect(loading, old, today, gs, over, w) ==
    IF ~loading THEN SavedGame(today, gs, over, w) ELSE old

\* variant: the saved game is never read back
LoadEffectNever(saved, today) ==
    [restore |-> FALSE, guesses |-> <<>>, gameOver |-> FALSE, won |-> FALSE,
     storage |-> saved]

\* the load effect: what it hands to setGuesses/setGameOver/setWon (restore),
\* and what it leaves in localStorage
LoadEffect(saved, today) ==
    IF saved.present
    THEN IF saved.date = today
         THEN [restore |-> TRUE, guesses |-> saved.guesses, gameOver |-> saved.gameOver,
               won |-> saved.won, storage |-> saved]
         ELSE [restore |-> FALSE, guesses |-> <<>>, gameOver |-> FALSE, won |-> FALSE,
               storage |-> NoItem]
    ELSE [restore |-> FALSE, guesses |-> <<>>, gameOver |-> FALSE, won |-> FALSE,
          storage |-> saved]

----------------------------------------------------------------------------
(* updateStats *)

\* newStats.guessDistribution[numGuesses]++ ; a missing key becomes NaN
Increment(dist, key) ==
    IF key \in DOMAIN dist THEN [dist EXCEPT ![key] = Add(@, Num(1))]
    ELSE [k \in (DOMAIN dist) \cup {key} |-> IF k = key THEN NaN ELSE dist[k]]

Max(x, y) == IF x >= y THEN x ELSE y

\* a variant of updateStats without the once-a-day guard
updateStatsEveryGame(prevStats, isWin, numGuesses, today, yesterday) ==
    LET streak == IF isWin THEN (IF prevStats.lastPlayedDate = yesterday
                                 THEN prevStats.currentStreak + 1 ELSE 1) ELSE 0
    IN [gamesPlayed |-> prevStats.gamesPlayed + 1,
        gamesWon |-> IF isWin THEN prevStats.gamesWon + 1 ELSE prevStats.gamesWon,
        currentStreak |-> streak,
        maxStreak |-> IF isWin THEN Max(streak, prevStats.maxStreak) ELSE prevStats.maxStreak,
        lastPlayedDate |-> today,
        guessDistribution |-> IF isWin THEN Increment(prevStats.guessDistribution, numGuesses)
                              ELSE prevStats.guessDistribution]

\* the updater passed to setStats; the result is also what it writes to localStorage
updateStats(prevStats, isWin, numGuesses, today, yesterday) ==
    IF prevStats.lastPlayedDate = today THEN prevStats
    ELSE
      LET streak == IF isWin
                    THEN (IF prevStats.lastPlayedDate = yesterday
                          THEN prevStats.currentStreak + 1 ELSE 1)
                    ELSE 0
      IN  [gamesPlayed |-> prevStats.gamesPlayed + 1,
           gamesWon |-> IF isWin THEN prevStats.gamesWon + 1 ELSE prevStats.gamesWon,
           currentStreak |-> streak,
           maxStreak |-> IF isWin THEN Max(streak, prevStats.maxStreak)
                         ELSE prevStats.maxStreak,
           lastPlayedDate |-> today,
           guessDistribution |-> IF isWin
                                 THEN Increment(prevStats.guessDistribution, numGuesses)
                                 ELSE prevStats.guessDistribution]

\* localStorage.setItem(STATS_KEY, ...) happens only when the updater went past its guard
StatsSaved(prevStats, old, newStats, today) ==
    IF prevStats.lastPlayedDate = today THEN old
    ELSE [present |-> TRUE,
          value |-> [newStats EXCEPT !.guessDistribution =
                        [k \in DOMAIN @ |-> JsonNumber(@[k])]]]

----------------------------------------------------------------------------
(* handleGuess *)

\* how many guesses the player picks freely among all countries; later picks are
\* the next country not yet guessed, in dataset order, or the country guessed last
FreeGuesses == 1

\* text that names no country: empty, blank, unknown
OddInputs == {<<>>, <<" ">>, <<"z">>}

\* "A" in another case with blanks around it
Variant == <<" ", "a", " ">>

GuessedNames == {guesses[i].name : i \in 1..Len(guesses)}

GuessInputs ==
    LET open == {c \in 1..NumCountries : countryData[c].name \notin GuessedNames}
    IN  IF Len(guesses) < FreeGuesses
        THEN {countryData[c].name : c \in 1..NumCountries} \cup OddInputs \cup {Variant}
        ELSE {countryData[c].name : c \in {o \in open : \A q \in open : o <= q}}
             \cup {guesses[Len(guesses)].name} \cup OddInputs

\* the distance handleGuess computes for a guessed and a target country
GuessDistance(guessed, target) ==
    LET g == calculateCentroid(countryData[guessed].coordinates)
        t == calculateCentroid(countryData[target].coordinates)
    IN  calculateDistance(g[2], g[1], t[2], t[1])

\* GuessDistance for every pair of countries
DistanceTable ==
    [guessed \in 1..NumCountries |->
        [target \in 1..NumCountries |-> GuessDistance(guessed, target)]]

\* newGuess
NewGuess(guessed, distance) ==
    [name |-> countryData[guessed].name,
     distance |-> distance,
     color |-> getColorByDistance(distance)]

\* variant: !(distance > 0)
IsWinNotPositive(distance) == ~Greater(distance, Num(0))

\* distance === 0
IsWin(distance) == StrictZero(distance)

\* a variant of what follows the validation that records every win, in
\* practice mode too
AcceptGuessCounted(guessed) ==
    LET distance == DistanceTable[guessed][targetCountry]
        count == Len(guesses) + 1
        gs == Append(guesses, NewGuess(guessed, distance))
        winning == IsWin(distance)
        losing == ~winning /\ ~isPracticeMode /\ count >= MAX_GUESSES
        newStats == updateStats(stats, winning, IF winning THEN count ELSE MAX_GUESSES,
                                Today[now], Today[now - 1])
    IN  /\ guesses' = gs
        /\ won' = (winning \/ won)
        /\ gameOver' = (winning \/ losing \/ gameOver)
        /\ IF winning \/ losing
           THEN /\ stats' = newStats
                /\ statsStore' = StatsSaved(stats, statsStore, newStats, Today[now])
           ELSE UNCHANGED <<stats, statsStore>>
        /\ storage' = SaveEffect(isLoading, storage, Today[now], gs,
                                 winning \/ losing \/ gameOver, winning \/ won)

\* what follows the validation in handleGuess, with the re-render's save effect
AcceptGuess(guessed) ==
    LET distance == DistanceTable[guessed][targetCountry]
        count == Len(guesses) + 1
        gs == Append(guesses, NewGuess(guessed, distance))
        winning == IsWin(distance)
        losing == ~winning /\ ~isPracticeMode /\ count >= MAX_GUESSES
        newStats == updateStats(stats, winning, IF winning THEN count ELSE MAX_GUESSES,
                                Today[now], Today[now - 1])
    IN  /\ guesses' = gs
        /\ won' = (winning \/ won)
        /\ gameOver' = (winning \/ losing \/ gameOver)
        /\ IF (winning \/ losing) /\ ~isPracticeMode
           THEN /\ stats' = newStats
                /\ statsStore' = StatsSaved(stats, statsStore, newStats, Today[now])
           ELSE UNCHANGED <<stats, statsStore>>
        /\ storage' = SaveEffect(isLoading, storage, Today[now], gs,
                                 winning \/ losing \/ gameOver, winning \/ won)

\* a variant of the check that looks at the first record only
AlreadyGuessedFirst(guessedCountry) ==
    /\ guesses # <<>>
    /\ trim(toLowerCase(guesses[1].name)) = NameKey[guessedCountry]

\* guesses.some(guess => guess.properties.name.toLowerCase().trim() ===
\*                       guessedCountry.name.toLowerCase().trim())
AlreadyGuessed(guessedCountry) ==
    \E i \in 1..Len(guesses) : trim(toLowerCase(guesses[i].name)) = NameKey[guessedCountry]

\* the body of handleGuess for the text typed into the input
Submit(currentGuess) ==
    LET guessedCountry == FindCountry(currentGuess)
    IN  IF isLoading \/ targetCountry = 0
        THEN UNCHANGED <<guesses, won, gameOver, stats, statsStore, storage>>
        ELSE IF trim(currentGuess) = <<>>
        THEN UNCHANGED <<guesses, won, gameOver, stats, statsStore, storage>>
        ELSE IF guessedCountry = 0
        THEN UNCHANGED <<guesses, won, gameOver, stats, statsStore, storage>>
        ELSE IF AlreadyGuessed(guessedCountry)
        THEN UNCHANGED <<guesses, won, gameOver, stats, statsStore, storage>>
        ELSE AcceptGuess(guessedCountry)

\* the Guess button or Enter, with the text typed into the input
handleGuess ==
    /\ ~gameOver
    /\ \E currentGuess \in GuessInputs : Submit(currentGuess)
    /\ UNCHANGED <<now, targetCountry, isLoading, isPracticeMode, settings, probe>>

\* the title of the toast handleGuess shows for the text, "" when it shows none
ToastTitle(currentGuess) ==
    LET guessedCountry == FindCountry(currentGuess)
    IN  IF isLoading \/ targetCountry = 0 THEN "Game not ready"
        ELSE IF trim(currentGuess) = <<>> THEN "Empty guess"
        ELSE IF guessedCountry = 0 THEN "Invalid country"
        ELSE IF AlreadyGuessed(guessedCountry) THEN "Already Guessed"
        ELSE IF IsWin(DistanceTable[guessedCountry][targetCountry])
        THEN (IF isPracticeMode THEN "Congratulations!" ELSE "")
        ELSE IF ~isPracticeMode /\ Len(guesses) + 1 >= MAX_GUESSES THEN "Game Over"
        ELSE ""

\* handleGuess, with the submitted text and the toast it shows kept on record
handleGuessToast ==
    /\ ~gameOver
    /\ \E currentGuess \in GuessInputs :
           /\ Submit(currentGuess)
           /\ probe' = Probe("handleGuess", TRUE, currentGuess, ToastTitle(currentGuess))
    /\ UNCHANGED <<now, targetCountry, isLoading, isPracticeMode, settings>>

----------------------------------------------------------------------------
(* Mount effects, reload, practice mode, the clock *)

\* variant: the saved game shifts the index
DailyTargetEffectBySaved(today, saved, savedStats) ==
    ((DailyCountryIndex(today) + Len(saved.guesses)) % NumCountries) + 1

\* the daily-target effect: setTargetCountry(countryData[countryIndex])
DailyTargetEffect(today, saved, savedStats) == DailyTarget(today)

\* first render and its effects (load saved game, daily target, save, load stats),
\* then the re-render with the state they set and its save effect; the component
\* state before it is the freshly constructed one
MountEffects ==
    LET today == Today[now]
        load == LoadEffect(storage, today)
        afterFirstPass == SaveEffect(TRUE, load.storage, today, <<>>, FALSE, FALSE)
        gs == IF load.restore THEN load.guesses ELSE <<>>
        over == IF load.restore THEN load.gameOver ELSE FALSE
        w == IF load.restore THEN load.won ELSE FALSE
    IN  /\ guesses' = gs
        /\ gameOver' = over
        /\ won' = w
        /\ targetCountry' = DailyTargetEffect(today, storage, statsStore)
        /\ isLoading' = FALSE
        /\ isPracticeMode' = FALSE
        /\ settings' = InitialSettings
        /\ stats' = IF statsStore.present THEN statsStore.value ELSE InitialStats
        /\ storage' = SaveEffect(FALSE, afterFirstPass, today, gs, over, w)
        /\ UNCHANGED <<now, statsStore, probe>>

\* the page is opened
componentMount ==
    /\ isLoading
    /\ MountEffects

\* the user reloads the page: window.location.reload() constructs the component
\* anew and mounts it
reload ==
    /\ ~isLoading
    /\ MountEffects

\* outcomes of Math.floor(Math.random() * countryData.length) the model draws:
\* the first country, the one on the prime meridian, the last one
RandomIndexes == {0, 3, NumCountries - 1}

\* getRandomCountry and resetPracticeGame, with the re-render's save effect
resetPracticeGame ==
    \E randomIndex \in RandomIndexes :
        /\ guesses' = <<>>
        /\ gameOver' = FALSE
        /\ won' = FALSE
        /\ targetCountry' = randomIndex + 1
        /\ storage' = SaveEffect(isLoading, storage, Today[now], <<>>, FALSE, FALSE)

\* setIsPracticeMode(true) and resetPracticeGame()
SwitchOn ==
    /\ ~isLoading
    /\ ~isPracticeMode
    /\ isPracticeMode' = TRUE
    /\ resetPracticeGame
    /\ UNCHANGED <<now, isLoading, settings, stats, statsStore>>

\* the Practice Mode switch, checked
practiceOn == SwitchOn /\ UNCHANGED probe

\* the Practice Mode switch, checked for the first time in the session, with
\* the daily game it is switched away from kept on record
practiceOnNoted ==
    /\ probe = ProbeIdle
    /\ SwitchOn
    /\ probe' = Probe("practice", TRUE,
                      [guesses |-> guesses, gameOver |-> gameOver, won |-> won], <<>>)

\* the Practice Mode switch, unchecked: setIsPracticeMode(false) and
\* window.location.reload()
practiceOff ==
    /\ isPracticeMode
    /\ MountEffects

\* the Play Again button of the game-over panel
playAgain ==
    /\ gameOver
    /\ isPracticeMode
    /\ resetPracticeGame
    /\ UNCHANGED <<now, isLoading, isPracticeMode, settings, stats, statsStore, probe>>

\* midnight passes
tick ==
    /\ now < MaxDay
    /\ now' = now + 1
    /\ UNCHANGED <<guesses, targetCountry, gameOver, won, isLoading, isPracticeMode,
                   settings, stats, storage, statsStore, probe>>

Next ==
    \/ componentMount
    \/ handleGuess
    \/ reload
    \/ practiceOn
    \/ practiceOff
    \/ playAgain
    \/ tick

Spec == Init /\ [][Next]_vars

\* the daily game alone: practice mode is never switched on
NextDaily ==
    \/ componentMount
    \/ handleGuess
    \/ reload
    \/ tick

SpecDaily == Init /\ [][NextDaily]_vars

----------------------------------------------------------------------------
(* The settings modal *)

\* what a setter of the settings modal leaves alone
SettingsFrame ==
    UNCHANGED <<now, guesses, targetCountry, gameOver, won, isLoading, isPracticeMode,
                stats, storage, statsStore, probe>>

\* the Auto-Rotate switch
setAutoRotate ==
    /\ ~isLoading
    /\ settings' = [settings EXCEPT !.autoRotate = ~@]
    /\ SettingsFrame

\* the Default, Satellite and Dark buttons
setGlobeStyle ==
    /\ ~isLoading
    /\ \E style \in {"default", "satellite", "dark"} :
           settings' = [settings EXCEPT !.globeStyle = style]
    /\ SettingsFrame

\* the Distance Guide switch
setShowDistanceGuide ==
    /\ ~isLoading
    /\ settings' = [settings EXCEPT !.showDistanceGuide = ~@]
    /\ SettingsFrame

\* the Previous Guesses switch
setShowPreviousGuesses ==
    /\ ~isLoading
    /\ settings' = [settings EXCEPT !.showPreviousGuesses = ~@]
    /\ SettingsFrame

\* the Kilometers and Miles buttons
setDistanceUnit ==
    /\ ~isLoading
    /\ \E unit \in {"km", "mi"} : settings' = [settings EXCEPT !.distanceUnit = unit]
    /\ SettingsFrame

\* the keys of regions
RegionKeys == {"all", "europe", "asia", "americas", "africa", "oceania"}

\* the region buttons, rendered in practice mode only
setSelectedRegion ==
    /\ ~isLoading
    /\ isPracticeMode
    /\ \E key \in RegionKeys : settings' = [settings EXCEPT !.selectedRegion = key]
    /\ SettingsFrame

\* country.region: countryData's records are built without a region property,
\* so the read gives undefined
region(country) == "undefined"

\* getFilteredCountries, as positions in countryData
getFilteredCountries(selectedRegion) ==
    IF selectedRegion = "all" THEN 1..NumCountries
    ELSE {c \in 1..NumCountries : region(countryData[c]) = selectedRegion}

\* the settings modal, page reloads and the Practice Mode switch
NextSettings ==
    \/ componentMount
    \/ reload
    \/ practiceOn
    \/ practiceOff
    \/ setAutoRotate
    \/ setGlobeStyle
    \/ setShowDistanceGuide
    \/ setShowPreviousGuesses
    \/ setDistanceUnit
    \/ setSelectedRegion

SpecSettings == Init /\ [][NextSettings]_vars

\* practice games on one day, with the region buttons
NextPractice ==
    \/ componentMount
    \/ practiceOn
    \/ practiceOff
    \/ handleGuess
    \/ playAgain
    \/ setSelectedRegion

SpecPractice == Init /\ [][NextPractice]_vars

\* one calendar day of play: daily and practice games, reloads and practice
\* toggles, the clock staying on the first day
NextSameDay ==
    \/ componentMount
    \/ handleGuess
    \/ reload
    \/ practiceOn
    \/ practiceOff
    \/ playAgain

SpecSameDay == Init /\ [][NextSameDay]_vars

\* submissions to the daily game with the toasts on record
NextSubmit ==
    \/ componentMount
    \/ handleGuessToast
    \/ reload

SpecSubmit == Init /\ [][NextSubmit]_vars

\* a day with one visit to practice mode, the daily game on record at the
\* switch
NextSwitch ==
    \/ componentMount
    \/ handleGuess
    \/ practiceOnNoted
    \/ practiceOff
    \/ playAgain

SpecSwitch == Init /\ [][NextSwitch]_vars

----------------------------------------------------------------------------
(* The engine functions on sampled inputs *)

\* longest ring, in points, of the sampled geometries
MaxRing == 5

\* most member polygons of a sampled MultiPolygon
MaxPolygons == 2

RECURSIVE SeqsOfLen(_, _)
SeqsOfLen(S, n) ==
    IF n = 0 THEN {<<>>}
    ELSE {Append(q, x) : q \in SeqsOfLen(S, n - 1), x \in S}

SeqsUpTo(S, lo, hi) == UNION {SeqsOfLen(S, n) : n \in lo..hi}

Min(x, y) == IF x <= y THEN x ELSE y

\* single-ring polygons with 1..MaxRing numeric points on a small grid
GridPoints == {Pt(lon, lat) : lon \in {0, 2}, lat \in {0, 2}}

GridPolygons == {Polygon(<<Arr(ring)>>) : ring \in SeqsUpTo(GridPoints, 1, MaxRing)}

\* rings of 1..MaxRing points cut from three outlines
Outlines == <<
    <<Pt(0, 0), Pt(0, 2), Pt(2, 2), Pt(2, 0), Pt(6, 6), Pt(8, 2)>>,
    <<Pt(10, 10), Pt(30, 10), Pt(20, 40), Pt(-20, 0), Pt(0, -10), Pt(14, 4)>>,
    <<Pt(-60, -10), Pt(-56, -10), Pt(-58, -16), Pt(-50, 0), Pt(-66, 6), Pt(-70, 0)>> >>

OutlineRings ==
    {Arr(SubSeq(Outlines[o], 1, n)) :
        o \in 1..Len(Outlines), n \in 1..Min(MaxRing, Len(Outlines[1]))}

\* MultiPolygons of 1..MaxPolygons single-ring polygons
MultiPolygons ==
    {MultiPolygon([p \in 1..Len(rings) |-> Polygon(<<rings[p]>>)]) :
        rings \in SeqsUpTo(OutlineRings, 1, MaxPolygons)}

\* malformed points, and geometries of rings of 0..2 points one of which is malformed
BadPoints == {Arr(<<Str, Str>>), Arr(<<Num(2), Str>>), Arr(<<Null, Null>>), Arr(<<>>),
              Arr(<<Num(2)>>), Null}

MalformedRings ==
    {Arr(ring) : ring \in {r \in SeqsUpTo(BadPoints \cup {Pt(2, 4)}, 0, 2) :
                              r = <<>> \/ \E i \in 1..Len(r) : r[i] \in BadPoints}}

MalformedGeometries ==
    {Polygon(<<ring>>) : ring \in MalformedRings}
    \cup {MultiPolygon(<<Polygon(<<ring>>)>>) : ring \in MalformedRings}
    \cup {MultiPolygon(<<Polygon(<<ring>>), Polygon(<<Arr(<<>>)>>)>>) : ring \in MalformedRings}

\* missing or empty coordinates
NoGeometries == {Undefined, Null, Arr(<<>>)}

CentroidInputs == GridPolygons \cup MultiPolygons \cup MalformedGeometries \cup NoGeometries

LatSamples == {-60, 0, 11, 45}

LonSamples == {-120, 0, 11, 100}

DistanceInputs ==
    {<<Num(lat1), Num(lon1), Num(lat2), Num(lon2)>> :
        lat1 \in LatSamples, lon1 \in LonSamples, lat2 \in LatSamples, lon2 \in LonSamples}
    \cup {<<NaN, NaN, Num(0), Num(0)>>, <<Num(0), Num(0), NaN, NaN>>, <<NaN, NaN, NaN, NaN>>}

TierInputs ==
    {Num(km) : km \in {0, 1, 999, 1000, 1001, 2499, 2500, 2501, 4999, 5000, 5001, 20015}}
    \cup {Rat(1, 2), Rat(1999, 2), Rat(4999, 2), Rat(9999, 2), NaN, Infinity}

InitEngine ==
    /\ InitGame
    /\ \/ \E g \in CentroidInputs : probe = Probe("calculateCentroid", FALSE, g, <<>>)
       \/ \E d \in DistanceInputs : probe = Probe("calculateDistance", FALSE, d, <<>>)
       \/ \E d \in TierInputs : probe = Probe("getColorByDistance", FALSE, d, <<>>)

applyCentroid ==
    /\ probe.fn = "calculateCentroid" /\ ~probe.done
    /\ probe' = [probe EXCEPT !.done = TRUE, !.output = calculateCentroid(probe.input)]
    /\ UNCHANGED gameVars

applyDistance ==
    /\ probe.fn = "calculateDistance" /\ ~probe.done
    /\ probe' = [probe EXCEPT !.done = TRUE,
                   !.output = calculateDistance(probe.input[1], probe.input[2],
                                                probe.input[3], probe.input[4])]
    /\ UNCHANGED gameVars

applyColor ==
    /\ probe.fn = "getColorByDistance" /\ ~probe.done
    /\ probe' = [probe EXCEPT !.done = TRUE, !.output = getColorByDistance(probe.input)]
    /\ UNCHANGED gameVars

NextEngine == applyCentroid \/ applyDistance \/ applyColor

SpecEngine == InitEngine /\ [][NextEngine]_vars

----------------------------------------------------------------------------
(* The daily-target resolution through the days of a year, for datasets of
   several lengths *)

\* a leap year and a common year
Years == {2024, 2025}

\* countryData.length: tiny lists, the sample's length, and every length a
\* world-country list has
DatasetLengths == {1, 2, 7, NumCountries} \cup (100..300)

Resolution(dt, length) ==
    Probe("dailyTarget", TRUE, [date |-> dt, length |-> length],
          countryIndex(format(dt), length))

InitSeed ==
    /\ InitGame
    /\ \E y \in Years, length \in DatasetLengths :
           probe = Probe("dailyTarget", FALSE,
                         [date |-> [year |-> y, month |-> 1, day |-> 1], length |-> length],
                         <<>>)

\* the component mounts and resolves the day's target
resolveTarget ==
    /\ probe.fn = "dailyTarget" /\ ~probe.done
    /\ probe' = Resolution(probe.input.date, probe.input.length)
    /\ UNCHANGED gameVars

\* the component mounts again on the following day
resolveNextDay ==
    /\ probe.fn = "dailyTarget" /\ probe.done
    /\ NextDate(probe.input.date).year \in Years
    /\ probe' = Resolution(NextDate(probe.input.date), probe.input.length)
    /\ UNCHANGED gameVars

NextSeed == resolveTarget \/ resolveNextDay

SpecSeed == InitSeed /\ [][NextSeed]_vars

----------------------------------------------------------------------------
(* The statistics through a run of local calendar days: updateStats takes
   "today" from the local date of Date.now() and "yesterday" from the local
   date of Date.now() - 86400000 *)

\* the 86400000 ms that updateStats subtracts from Date.now()
DayMs == 86400000

Hours(n) == n * 3600000

\* the dates of count consecutive days from first
RECURSIVE DatesFrom(_, _)
DatesFrom(first, count) ==
    IF count = 0 THEN <<>> ELSE <<first>> \o DatesFrom(NextDate(first), count - 1)

\* five local days, each with its length: a zone that keeps one offset, and
\* America/New_York where daylight saving time ended on 2024-11-03 (a day of
\* 25 hours) and began on 2025-03-09 (a day of 23 hours)
Calendars ==
    { [dates |-> DatesFrom([year |-> 2024, month |-> 10, day |-> 31], 5),
       length |-> <<Hours(24), Hours(24), Hours(24), Hours(24), Hours(24)>>],
      [dates |-> DatesFrom([year |-> 2024, month |-> 10, day |-> 31], 5),
       length |-> <<Hours(24), Hours(24), Hours(24), Hours(25), Hours(24)>>],
      [dates |-> DatesFrom([year |-> 2025, month |-> 3, day |-> 6], 5),
       length |-> <<Hours(24), Hours(24), Hours(24), Hours(23), Hours(24)>> ] }

\* Date.now() at local midnight of the k-th day, counted from the first midnight
RECURSIVE Midnight(_, _)
Midnight(cal, k) == IF k = 1 THEN 0 ELSE Midnight(cal, k - 1) + cal.length[k - 1]

\* format(new Date(ms), 'yyyy-MM-dd'): the local date of an instant
LocalDate(cal, ms) ==
    format(cal.dates[CHOOSE k \in 1..Len(cal.dates) :
                        Midnight(cal, k) <= ms /\ ms < Midnight(cal, k) + cal.length[k]])

\* the instants of a day at which the player may finish a game: just after
\* midnight, at midday, and in the last hour of the day
PlayTimes(cal, k) ==
    { Midnight(cal, k), Midnight(cal, k) + Hours(12),
      Midnight(cal, k) + cal.length[k] - Hours(1) }

\* the player's first day is the third of the calendar
Clock(cal) == UNION { PlayTimes(cal, k) : k \in 3..Len(cal.dates) }

InitStats ==
    /\ InitGame
    /\ \E cal \in Calendars :
           probe = Probe("updateStats", FALSE, [calendar |-> cal, ms |-> Midnight(cal, 3)], <<>>)

\* time passes to a later instant of the calendar
clockAdvance ==
    /\ probe.fn = "updateStats"
    /\ \E ms \in Clock(probe.input.calendar) :
           /\ ms > probe.input.ms
           /\ probe' = [probe EXCEPT !.input.ms = ms]
    /\ UNCHANGED gameVars

\* a daily game ends: handleGuess calls updateStats(true, guesses.length + 1)
\* or updateStats(false, MAX_GUESSES)
finishGame ==
    /\ probe.fn = "updateStats"
    /\ \E isWin \in BOOLEAN, numGuesses \in {1, MAX_GUESSES} :
           /\ ~isWin => numGuesses = MAX_GUESSES
           /\ LET cal == probe.input.calendar
                  today == LocalDate(cal, probe.input.ms)
                  yesterday == LocalDate(cal, probe.input.ms - DayMs)
                  newStats == updateStats(stats, isWin, numGuesses, today, yesterday)
              IN /\ stats' = newStats
                 /\ statsStore' = StatsSaved(stats, statsStore, newStats, today)
                 /\ probe' = [probe EXCEPT !.done = TRUE,
                                !.output = [won |-> isWin, numGuesses |-> numGuesses]]
    /\ UNCHANGED <<now, guesses, targetCountry, gameOver, won, isLoading, isPracticeMode,
                   settings, storage>>

NextStats == clockAdvance \/ finishGame

SpecStats == InitStats /\ [][NextStats]_vars

----------------------------------------------------------------------------
(* Properties *)

Last(q) == q[Len(q)]

\* a step of handleGuess that appended a guess
GuessAccepted ==
    /\ ~isLoading
    /\ targetCountry # 0
    /\ targetCountry' = targetCountry
    /\ isPracticeMode' = isPracticeMode
    /\ Len(guesses') = Len(guesses) + 1
    /\ SubSeq(guesses', 1, Len(guesses)) = guesses

\* a step that constructs and mounts the component
Mounted == componentMount \/ reload \/ practiceOff

\* the sum of the i-th coordinates of a ring of numeric points
RECURSIVE CoordSum(_, _, _)
CoordSum(ring, i, upto) ==
    IF upto = 0 THEN 0 ELSE CoordSum(ring, i, upto - 1) + ring.a[upto].a[i].n

\* v is the mean of the i-th coordinates of the ring
IsMean(v, ring, i) ==
    /\ IsFinite(v)
    /\ v.n * Len(ring.a) = CoordSum(ring, i, Len(ring.a)) * v.d

IsRingAverage(pair, ring) == IsMean(pair[1], ring, 1) /\ IsMean(pair[2], ring, 2)

\* C1: whenever the guessed country is the target itself, the distance is exactly
\* 0, the guess is tier Correct, and the game becomes won and over.
C1_TargetGuessWins ==
    [][(GuessAccepted /\ Last(guesses').name = countryData[targetCountry].name)
        => /\ StrictZero(Last(guesses').distance)
           /\ Last(guesses').color = Correct
           /\ won'
           /\ gameOver']_vars

\* C2: for every single polygon whose ring has at least one point, calculateCentroid
\* returns the unweighted mean of the ring's longitudes and latitudes.
C2_PolygonMean ==
    (probe.fn = "calculateCentroid" /\ probe.done /\ probe.input \in GridPolygons)
        => IsRingAverage(probe.output, probe.input.a[1])

\* C3: for every MultiPolygon, calculateCentroid returns the point average of a
\* ring with the most points among the member polygons; the other rings and the
\* order of the rings do not matter.
C3_LargestRingAverage ==
    (probe.fn = "calculateCentroid" /\ probe.done /\ probe.input \in MultiPolygons)
        => LET rings == [p \in 1..Len(probe.input.a) |-> probe.input.a[p].a[1]]
           IN  \E p \in 1..Len(rings) :
                   /\ \A q \in 1..Len(rings) : Len(rings[q].a) <= Len(rings[p].a)
                   /\ IsRingAverage(probe.output, rings[p])

\* a MultiPolygon of a 3-point and a 5-point ring, in both orders, gave the
\* 5-point ring's average (8, 10)
C3_Witness ==
    /\ probe.fn = "calculateCentroid" /\ probe.done
    /\ probe.input \in
        {MultiPolygon(<<Polygon(<<Arr(SubSeq(Outlines[1], 1, 3))>>),
                        Polygon(<<Arr(SubSeq(Outlines[2], 1, 5))>>)>>),
         MultiPolygon(<<Polygon(<<Arr(SubSeq(Outlines[2], 1, 5))>>),
                        Polygon(<<Arr(SubSeq(Outlines[1], 1, 3))>>)>>)}
    /\ probe.output = <<Num(8), Num(10)>>

\* lo <= v < hi for a finite v
InRange(v, lo, hi) == v.n >= lo * v.d /\ v.n < hi * v.d

\* C4: distance 0 is Correct, 0 < d < 1000 VeryClose, 1000 <= d < 2500 Close,
\* 2500 <= d < 5000 Far, d >= 5000 VeryFar.
C4_TierIntervals ==
    (probe.fn = "getColorByDistance" /\ probe.done /\ IsFinite(probe.input))
        => LET d == probe.input
           IN  probe.output =
                 (IF d.n = 0 THEN Correct
                  ELSE IF InRange(d, 0, 1000) THEN VeryClose
                  ELSE IF InRange(d, 1000, 2500) THEN Close
                  ELSE IF InRange(d, 2500, 5000) THEN Far
                  ELSE VeryFar)

\* exactly 1000 km came out as Close
C4_Witness ==
    /\ probe.fn = "getColorByDistance" /\ probe.done
    /\ probe.input = Num(1000)
    /\ probe.output = Close

\* C5: for malformed geometry calculateCentroid raises nothing and its result is
\* the sentinel origin (0, 0).
C5_MalformedGivesOrigin ==
    (probe.fn = "calculateCentroid" /\ probe.done /\ probe.input \in MalformedGeometries)
        => probe.output = Origin

\* C6: a non-finite distance is tier VeryFar, never Correct, and a guess with a
\* non-finite distance never sets won.
C6_NonFiniteNeverWins ==
    [][/\ getColorByDistance(NaN) = VeryFar
       /\ getColorByDistance(Infinity) = VeryFar
       /\ (GuessAccepted /\ ~IsFinite(Last(guesses').distance))
            => /\ Last(guesses').color = VeryFar
               /\ ~won']_vars

\* a guess with distance NaN is in the history, coloured VeryFar, and the game is not won
C6_Witness ==
    /\ ~won
    /\ \E i \in 1..Len(guesses) :
           IsNaN(guesses[i].distance) /\ guesses[i].color = VeryFar

\* C7: in daily mode the history never holds more than MAX_GUESSES guesses.
C7_AtMostMaxGuesses ==
    (~isLoading /\ ~isPracticeMode) => Len(guesses) <= MAX_GUESSES

\* C8: whenever the daily game of the current day is shown, every guess in the
\* history was scored against that day's target.
C8_HistoryIsTodays ==
    (~isLoading /\ targetCountry = DailyTarget(Today[now]))
        => \A i \in 1..Len(guesses) :
               guesses[i].distance
                   = JsonNumber(GuessDistance(FindCountry(guesses[i].name), targetCountry))
               \/ guesses[i].distance
                   = GuessDistance(FindCountry(guesses[i].name), targetCountry)

\* C9: mounting the component on the day the game was saved restores guesses,
\* gameOver and won as saved, and leaves the saved game as it was.
C9_ReloadRestores ==
    [][(Mounted /\ storage.present /\ storage.date = Today[now])
        => /\ guesses' = storage.guesses
           /\ gameOver' = storage.gameOver
           /\ won' = storage.won
           /\ storage' = storage]_vars

\* a won daily game whose history went through the saved form (a NaN distance
\* reads back as null) and equals what is saved for today
C9_Witness ==
    /\ ~isLoading /\ ~isPracticeMode
    /\ won /\ gameOver
    /\ \E i \in 1..Len(guesses) : guesses[i].distance = Null
    /\ storage = SavedGame(Today[now], guesses, gameOver, won)

\* C10: the target a mount resolves is the one a mount on the same date resolves
\* in a browser with no saved game and no statistics.
C10_TargetByDateOnly ==
    [][Mounted => targetCountry' = DailyTargetEffect(Today[now], NoItem, NoStats)]_vars

\* a daily game restored from a saved game, with statistics on record, on the
\* second day
C10_Witness ==
    /\ ~isLoading /\ ~isPracticeMode
    /\ now = 2
    /\ stats.gamesPlayed > 0
    /\ \E i \in 1..Len(guesses) : guesses[i].distance = Null
    /\ targetCountry = DailyTarget(Today[now])

\* C11: the daily target's index is (year*373 + month*37 + day*7) mod N and lies
\* in 0..N-1, for every date and every dataset length N >= 1.
C11_SeedIndex ==
    (probe.fn = "dailyTarget" /\ probe.done)
        => LET dt == probe.input.date
               N == probe.input.length
           IN  /\ probe.output = (dt.year * 373 + dt.month * 37 + dt.day * 7) % N
               /\ probe.output \in 0..(N - 1)

\* 29 February 2024 resolved on a list of 241 countries
C11_Witness ==
    /\ probe.fn = "dailyTarget" /\ probe.done
    /\ probe.input = [date |-> [year |-> 2024, month |-> 2, day |-> 29], length |-> 241]
    /\ probe.output = 176

\* C12: for dataset lengths 100..300, consecutive days of one calendar year never
\* resolve to the same index.
C12_ConsecutiveDaysDiffer ==
    [][(/\ probe.fn = "dailyTarget" /\ probe.done /\ probe'.done
        /\ probe'.input.length = probe.input.length
        /\ probe'.input.date = NextDate(probe.input.date)
        /\ probe'.input.date.year = probe.input.date.year
        /\ probe.input.length \in 100..300)
        => probe'.output # probe.output]_vars

\* C13: calculateCentroid returns the origin (0, 0) for missing coordinates (null
\* or undefined) and for an empty list.
C13_MissingGivesOrigin ==
    (probe.fn = "calculateCentroid" /\ probe.done /\ probe.input \in NoGeometries)
        => probe.output = <<Num(0), Num(0)>>

\* the empty list gave the origin
C13_Witness ==
    /\ probe.fn = "calculateCentroid" /\ probe.done
    /\ probe.input = Arr(<<>>)
    /\ probe.output = <<Num(0), Num(0)>>

\* C14: the distance from a point with finite coordinates to itself is exactly 0,
\* and its tier is Correct.
C14_SamePointIsZero ==
    (/\ probe.fn = "calculateDistance" /\ probe.done
     /\ \A i \in 1..4 : IsFinite(probe.input[i])
     /\ probe.input[1] = probe.input[3]
     /\ probe.input[2] = probe.input[4])
        => /\ probe.output = Num(0)
           /\ getColorByDistance(probe.output) = Correct

\* a point of the southern and western hemispheres scored against itself
C14_Witness ==
    /\ probe.fn = "calculateDistance" /\ probe.done
    /\ probe.input = <<Num(-60), Num(-120), Num(-60), Num(-120)>>
    /\ probe.output = Num(0)

\* C15: calculateDistance(a, b, c, d) equals calculateDistance(c, d, a, b), and
\* both have the same tier.
C15_DistanceSymmetric ==
    (probe.fn = "calculateDistance" /\ probe.done)
        => LET back == calculateDistance(probe.input[3], probe.input[4],
                                         probe.input[1], probe.input[2])
           IN  /\ probe.output = back
               /\ getColorByDistance(probe.output) = getColorByDistance(back)

\* two different points, in different hemispheres, at a positive distance
C15_Witness ==
    /\ probe.fn = "calculateDistance" /\ probe.done
    /\ probe.input = <<Num(-60), Num(100), Num(45), Num(-120)>>
    /\ IsFinite(probe.output) /\ probe.output.n > 0

\* a step that starts a new game: a practice game, or a mount that finds no game
\* saved today
NewGame ==
    \/ practiceOn
    \/ playAgain
    \/ (Mounted /\ ~(storage.present /\ storage.date = Today[now]))

\* C16: a step either leaves the history as it is, or appends one record to it,
\* or starts a new game with an empty history.
C16_HistoryAppendOnly ==
    [][\/ guesses' = guesses
       \/ (handleGuess /\ Len(guesses') = Len(guesses) + 1
              /\ SubSeq(guesses', 1, Len(guesses)) = guesses)
       \/ (NewGame /\ guesses' = <<>>)]_vars

\* C17: every record of the history has a finite distance >= 0, and its colour is
\* the tier of that distance.
C17_RecordsWellFormed ==
    \A i \in 1..Len(guesses) :
        /\ IsFinite(guesses[i].distance)
        /\ guesses[i].distance.n >= 0
        /\ guesses[i].color = getColorByDistance(guesses[i].distance)

\* C18: after a page reload the settings, practice mode among them, have the
\* values they had before it.
C18_SettingsSurviveReload ==
    [][reload => (settings' = settings /\ isPracticeMode' = isPracticeMode)]_vars

\* C19: with a region other than 'all' selected, a new practice game's target is
\* one of the countries of that region.
C19_TargetFromRegion ==
    [][((practiceOn \/ playAgain) /\ settings.selectedRegion # "all")
        => targetCountry' \in getFilteredCountries(settings.selectedRegion)]_vars

\* the i-th record of the history names the target
IsCorrect(i) == guesses[i].name = countryData[targetCountry].name

NoneCorrect == \A i \in 1..Len(guesses) : ~IsCorrect(i)

\* C20: in daily mode the game is over and lost exactly when MAX_GUESSES guesses
\* are recorded and none is correct; with fewer guesses and none correct it is not
\* over, and a correct last guess makes it won.
C20_LostAtTenthWrongGuess ==
    (~isLoading /\ ~isPracticeMode)
        => /\ (gameOver /\ ~won) <=> (Len(guesses) = MAX_GUESSES /\ NoneCorrect)
           /\ (Len(guesses) < MAX_GUESSES /\ NoneCorrect) => ~gameOver
           /\ (guesses # <<>> /\ IsCorrect(Len(guesses))) => (gameOver /\ won)

\* C21: the statistics change at most once per calendar day: a step adds at most
\* one game to gamesPlayed, and only when lastPlayedDate is not today, stamping
\* it with today; once lastPlayedDate is today, a further finished game leaves
\* the statistics in memory as they are, and no step of the day changes
\* gamesPlayed or the stored statistics
C21_OncePerDay ==
    [][/\ stats'.gamesPlayed \in {stats.gamesPlayed, stats.gamesPlayed + 1}
       /\ stats'.gamesPlayed # stats.gamesPlayed
            => /\ stats.lastPlayedDate # Today[now]
               /\ stats'.lastPlayedDate = Today[now]
               /\ statsStore'.present
               /\ statsStore'.value.gamesPlayed = stats'.gamesPlayed
               /\ statsStore'.value.lastPlayedDate = Today[now]
       /\ (stats.lastPlayedDate = Today[now] /\ now' = now)
            => /\ stats'.gamesPlayed = stats.gamesPlayed
               /\ stats'.lastPlayedDate = stats.lastPlayedDate
               /\ statsStore' = statsStore
               /\ GuessAccepted => stats' = stats]_vars

\* a second daily game of the day was lost after the day's game had been won:
\* the statistics still count one game, the win
C21_Witness ==
    /\ ~isPracticeMode /\ gameOver /\ ~won
    /\ stats.lastPlayedDate = Today[now]
    /\ stats.gamesPlayed = 1 /\ stats.gamesWon = 1
    /\ statsStore.value.gamesPlayed = 1

\* the local calendar day before the day of an instant
DayBefore(cal, ms) ==
    format(cal.dates[(CHOOSE k \in 1..Len(cal.dates) :
                         Midnight(cal, k) <= ms /\ ms < Midnight(cal, k) + cal.length[k]) - 1])

\* C22: when updateStats records a result, a win makes currentStreak the
\* previous streak + 1 if lastPlayedDate was yesterday and 1 otherwise, and
\* maxStreak the larger of the previous maxStreak and the new currentStreak; a
\* loss makes currentStreak 0 and leaves maxStreak; and currentStreak <= maxStreak
\* in every state
C22_StreakRules ==
    /\ [][(probe.fn = "updateStats" /\ stats'.gamesPlayed = stats.gamesPlayed + 1)
          => IF stats'.gamesWon = stats.gamesWon + 1
             THEN /\ stats'.currentStreak =
                        (IF stats.lastPlayedDate = DayBefore(probe.input.calendar, probe.input.ms)
                         THEN stats.currentStreak + 1 ELSE 1)
                  /\ stats'.maxStreak = Max(stats.maxStreak, stats'.currentStreak)
             ELSE /\ stats'.currentStreak = 0
                  /\ stats'.maxStreak = stats.maxStreak]_vars
    /\ [](stats.currentStreak <= stats.maxStreak)

\* two names are the same when they differ only in case and in blanks around them
SameName(a, b) == trim(toLowerCase(a)) = trim(toLowerCase(b))

\* a submission that is to be rejected: the game is not ready, the text is
\* empty or blank, it names no country, or it names a country already guessed
Rejected(text) ==
    \/ isLoading \/ targetCountry = 0
    \/ \A i \in 1..Len(text) : text[i] = " "
    \/ \A c \in 1..NumCountries : ~SameName(countryData[c].name, text)
    \/ \E i \in 1..Len(guesses) : SameName(guesses[i].name, text)

\* C23: a rejected submission leaves the guess history, gameOver, won, the target
\* country and the statistics unchanged (and so consumes no attempt), and it is
\* the rejected submissions that get one of the four warning toasts
C23_RejectedChangesNothing ==
    [][handleGuessToast
       => /\ Rejected(probe'.input)
             => UNCHANGED <<guesses, gameOver, won, targetCountry, stats, statsStore, storage>>
          /\ Rejected(probe'.input)
             <=> probe'.output \in {"Game not ready", "Empty guess", "Invalid country",
                                    "Already Guessed"}]_vars

\* a country already in the history was submitted again while the game was on
C23_Witness ==
    /\ probe.fn = "handleGuess" /\ probe.output = "Already Guessed"
    /\ \E i \in 1..Len(guesses) : guesses[i].name = probe.input
    /\ ~gameOver /\ ~isLoading

\* C24: the guess history never holds two records with the same country name,
\* compared without regard to case and to blanks around the name
C24_NoDuplicateNames ==
    \A i, j \in 1..Len(guesses) : i # j => ~SameName(guesses[i].name, guesses[j].name)

\* with three countries in the history, the one guessed last was submitted again
\* and turned away
C24_Witness ==
    /\ Len(guesses) >= 3
    /\ probe.fn = "handleGuess" /\ probe.output = "Already Guessed"
    /\ SameName(probe.input, guesses[Len(guesses)].name)

\* C25: while practice mode is on, no step (a guess, a win, a "Play Again"
\* reset) changes the statistics, in memory or in storage
C25_PracticeKeepsStats ==
    [][(isPracticeMode /\ isPracticeMode') => UNCHANGED <<stats, statsStore>>]_vars

\* a practice game was won at its second guess while the statistics hold the
\* day's game alone, won at the first guess
C25_Witness ==
    /\ isPracticeMode /\ gameOver /\ won /\ Len(guesses) = 2
    /\ stats.gamesPlayed = 1 /\ stats.gamesWon = 1
    /\ stats.guessDistribution[1] = Num(1) /\ stats.guessDistribution[2] = Num(0)
    /\ statsStore.present /\ statsStore.value = stats

\* a history as JSON.stringify and JSON.parse hand it back
Reparsed(gs) == [i \in 1..Len(gs) |-> JsonGuess(gs[i])]

\* C26: practice mode does not alter the daily game: when practice mode is
\* switched off, the daily game that the reload brings up has the guess history,
\* gameOver and won that the daily game had when practice mode was switched on
C26_PracticeLeavesDailyGame ==
    [][(practiceOff /\ probe.fn = "practice")
       => /\ Reparsed(guesses') = Reparsed(probe.input.guesses)
          /\ gameOver' = probe.input.gameOver
          /\ won' = probe.input.won]_vars

\* C27: every record of the guess history was scored against the current
\* target: its distance is the distance between the centroid of the country it
\* names and the centroid of targetCountry (as computed, or as read back from
\* the saved game), in daily and in practice mode
C27_ScoredAgainstTarget ==
    (~isLoading /\ targetCountry # 0)
        => \A i \in 1..Len(guesses) :
               LET scored == DistanceTable[FindCountry(guesses[i].name)][targetCountry]
               IN  guesses[i].distance \in {scored, JsonNumber(scored)}

============================================================================
